---- MODULE Spec2Model ----
(***************************************************************************)
(* Model of src/api.py: the Flask handler POST /api (api_handler) with its *)
(* helpers validate_token, load_config, save_config, get_auth_token and    *)
(* make_api_request.  One request handler runs against the identity        *)
(* provider and the operation endpoints (both environment), while a        *)
(* writer may replace config.json through save_config.                     *)
(*                                                                         *)
(* Python values are modelled as follows: None is the string "None"; a     *)
(* formatted string (f-string, ', '.join, str(e)) is the sequence of its   *)
(* parts; a JSON object is a record; a configuration is a record whose     *)
(* four fields hold the number of the stored version (0 is the all-empty   *)
(* default of load_config).                                                *)
(***************************************************************************)
EXTENDS Integers, Sequences, FiniteSets, TLC

\* ---- bounds of the model ------------------------------------------------
MaxTime == 2     \* the clock (time.time()) takes the values 0..MaxTime
MaxCfg == 2      \* stored configurations are numbered 1..MaxCfg

\* ---- constants of the program -------------------------------------------
API_TOKEN == "F0EHbyjo2eo3ZL9TDaimKZRR9Zl43epwBZKCgKARY2f8Dw0Z7eQDeshL3fE0FrPE"

AUTH_URL == "https://autenticacao.sapi.serpro.gov.br/authenticate"

\* url_map of make_api_request
url_map ==
    [consultar |-> "https://gateway.apiserpro.serpro.gov.br/integra-contador/v1/Consultar",
     emitir    |-> "https://gateway.apiserpro.serpro.gov.br/integra-contador/v1/Emitir",
     declarar  |-> "https://gateway.apiserpro.serpro.gov.br/integra-contador/v1/Declarar"]

\* every operation endpoint of the provider
OperationUrls == { url_map[k] : k \in DOMAIN url_map }

None == "None"

\* Python truthiness of a JSON value held in a request field: None (absent
\* key or null) and the empty value "" (standing for "", 0, false, [], {})
\* are falsy.
Truthy(x) == x \notin {None, ""}

\* ---- inputs ---------------------------------------------------------------
\* The Authorization header: absent, or its text as a sequence of words and
\* blanks (" ").
AuthHeaders ==
    { [present |-> FALSE, text |-> <<>>] } \cup
    { [present |-> TRUE, text |-> t] : t \in
        { <<>>,
          << " " >>,
          << "Bearer" >>,
          << API_TOKEN >>,
          << "Bearer", " ", API_TOKEN >>,
          << "bearer", " ", API_TOKEN >>,
          << "BEARER", " ", " ", API_TOKEN >>,
          << "Basic", " ", API_TOKEN >>,
          << "Bearer", " ", "wrong-token" >>,
          << "Bearer", " ", API_TOKEN, " ", "x" >> } }

\* the external names of the required parameters, in the order of the checks
RequiredParams == << "tipo", "cnpj", "idSistema", "idServico", "versaoSistema", "dados" >>

TipoValues == { None, "", "consultar", "emitir", "declarar", "outro" }
ParamValues == { None, "", "v" }

NoFields == [ k \in { RequiredParams[i] : i \in 1..Len(RequiredParams) } |-> None ]

\* The request body.  kind: "invalid" (request.json raises), "null" (JSON
\* null), "array0" ([]), "array" (a non-empty array), "object".  For an
\* object, fields gives the value under each required key (None: key absent)
\* and extra tells whether the object has any other key.
ObjectBodies ==
    { [kind |-> "object", extra |-> x,
       fields |-> [tipo |-> t, cnpj |-> c, idSistema |-> s, idServico |-> v,
                   versaoSistema |-> w, dados |-> d]] :
        x \in BOOLEAN, t \in TipoValues, c \in ParamValues, s \in ParamValues,
        v \in ParamValues, w \in ParamValues, d \in ParamValues }

Bodies ==
    { [kind |-> k, extra |-> FALSE, fields |-> NoFields] :
        k \in { "invalid", "null", "array0", "array" } } \cup ObjectBodies

VARIABLES
    pc,             \* position of the handler in api_handler
    headers_in,     \* request.headers.get('Authorization')
    body_in,        \* the request body
    now,            \* time.time()
    start_time,     \* api_handler: start_time
    cfgFile,        \* config.json
    wpc,            \* position of the writer in save_config
    wdata,          \* save_config: config_data
    client_id,      \* api_handler: client_id
    client_secret,  \* api_handler: client_secret
    auth_reply,     \* what the identity provider did with the authenticate call
    auth_result,    \* api_handler: auth_result
    json_data,      \* make_api_request: json_data and the headers
    api_reply,      \* what the operation endpoint did with the call
    calls,          \* the outbound calls of this request, in order
    response        \* the response of api_handler

vars == << pc, headers_in, body_in, now, start_time, cfgFile, wpc, wdata,
           client_id, client_secret, auth_reply, auth_result, json_data,
           api_reply, calls, response >>


\* ---- Python values ------------------------------------------------------
\* an Optional[str]: None, or a string given by its parts ("" is <<>>)
NoneStr == [none |-> TRUE, s |-> <<>>]
Str(parts) == [none |-> FALSE, s |-> parts]

\* `if error:` on an Optional[str]
TruthyStr(e) == ~e.none /\ e.s # <<>>

\* str.split(): the words of a text, blanks dropped
Split(text) == SelectSeq(text, LAMBDA w : w # " ")

\* str.lower() on the schemes the inputs use
Lower(w) ==
    CASE w = "Bearer" -> "bearer"
      [] w = "BEARER" -> "bearer"
      [] w = "Basic" -> "basic"
      [] OTHER -> w

\* sep.join(names)
RECURSIVE Join(_, _)
Join(sep, names) ==
    IF names = <<>> THEN <<>>
    ELSE IF Len(names) = 1 THEN << names[1] >>
    ELSE << names[1], sep >> \o Join(sep, Tail(names))

\* ---- validate_token -----------------------------------------------------
\* validate_token without the comparison with API_TOKEN
validate_token_any_token(h) ==
    IF ~h.present \/ h.text = <<>>
    THEN [is_valid |-> FALSE, error |-> "Authorization header is missing"]
    ELSE LET parts == Split(h.text) IN
         IF Len(parts) # 2
         THEN [is_valid |-> FALSE, error |-> "Invalid authorization header format"]
         ELSE IF Lower(parts[1]) # "bearer"
         THEN [is_valid |-> FALSE, error |-> "Invalid authentication scheme"]
         ELSE [is_valid |-> TRUE, error |-> None]

validate_token(h) ==
    IF ~h.present \/ h.text = <<>>
    THEN [is_valid |-> FALSE, error |-> "Authorization header is missing"]
    ELSE LET parts == Split(h.text) IN
         IF Len(parts) # 2
         THEN [is_valid |-> FALSE, error |-> "Invalid authorization header format"]
         ELSE IF Lower(parts[1]) # "bearer"
         THEN [is_valid |-> FALSE, error |-> "Invalid authentication scheme"]
         ELSE IF parts[2] # API_TOKEN
         THEN [is_valid |-> FALSE, error |-> "Invalid token"]
         ELSE [is_valid |-> TRUE, error |-> None]

\* ---- config.json --------------------------------------------------------
ConfigOf(v) ==
    [api_key |-> v, client_id |-> v, client_secret |-> v, cnpj_contratante |-> v]

CfgFiles ==
    { [state |-> "missing", v |-> 0], [state |-> "partial", v |-> 0] } \cup
    { [state |-> "ok", v |-> v] : v \in 1..MaxCfg }

\* load_config: the default when the file does not exist, the stored value
\* when it holds one; json.load raises on a file that save_config has
\* truncated and not yet written.
load_config(f) ==
    CASE f.state = "missing" -> [raised |-> FALSE, msg |-> <<>>, config |-> ConfigOf(0)]
      [] f.state = "partial" ->
            [raised |-> TRUE, msg |-> << "Expecting value: line 1 column 1 (char 0)" >>,
             config |-> ConfigOf(0)]
      [] OTHER -> [raised |-> FALSE, msg |-> <<>>, config |-> ConfigOf(f.v)]

\* ---- get_auth_token -----------------------------------------------------
NoneAuth == [none |-> TRUE, access_token |-> "", jwt_token |-> ""]

\* What the identity provider does with the authenticate call: the call
\* raises (timeout, TLS or transport error, with the text of str(e)), or it
\* answers with a status and a body.
AuthReplies ==
    { [raised |-> TRUE, msg |-> m, status_code |-> 0, is_json |-> FALSE,
       has_access_token |-> FALSE, has_jwt_token |-> FALSE] :
        m \in { <<>>, << "Read timed out. (read timeout=10)" >> } } \cup
    { [raised |-> FALSE, msg |-> <<>>, status_code |-> c, is_json |-> j,
       has_access_token |-> a, has_jwt_token |-> w] :
        c \in { 200, 401, 500 }, j \in BOOLEAN, a \in BOOLEAN, w \in BOOLEAN }

\* get_auth_token without the check of response.status_code
get_auth_token_any_status(r) ==
    IF r.raised
    THEN [auth_result |-> NoneAuth, error |-> Str(r.msg)]
    ELSE IF ~r.is_json
    THEN [auth_result |-> NoneAuth,
          error |-> Str(<< "Expecting value: line 1 column 1 (char 0)" >>)]
    ELSE IF ~r.has_access_token
    THEN [auth_result |-> NoneAuth, error |-> Str(<< "'access_token'" >>)]
    ELSE IF ~r.has_jwt_token
    THEN [auth_result |-> NoneAuth, error |-> Str(<< "'jwt_token'" >>)]
    ELSE [auth_result |-> [none |-> FALSE, access_token |-> "access-token",
                           jwt_token |-> "jwt-token"],
          error |-> NoneStr]

get_auth_token(r) ==
    IF r.raised
    THEN [auth_result |-> NoneAuth, error |-> Str(r.msg)]
    ELSE IF r.status_code # 200
    THEN [auth_result |-> NoneAuth,
          error |-> Str(<< "Authentication failed with status code: ",
                           ToString(r.status_code) >>)]
    ELSE IF ~r.is_json
    THEN [auth_result |-> NoneAuth,
          error |-> Str(<< "Expecting value: line 1 column 1 (char 0)" >>)]
    ELSE IF ~r.has_access_token
    THEN [auth_result |-> NoneAuth, error |-> Str(<< "'access_token'" >>)]
    ELSE IF ~r.has_jwt_token
    THEN [auth_result |-> NoneAuth, error |-> Str(<< "'jwt_token'" >>)]
    ELSE [auth_result |-> [none |-> FALSE, access_token |-> "access-token",
                           jwt_token |-> "jwt-token"],
          error |-> NoneStr]

\* ---- make_api_request ---------------------------------------------------
\* url_map.get(tipo) on a url_map that holds 'consultar' only
url_map_get_consultar_only(tipo) ==
    IF tipo = "consultar" THEN url_map[tipo] ELSE None

\* url_map.get(tipo, <the URL of 'consultar'>): a default for unknown kinds
url_map_get_with_default(tipo) ==
    IF tipo \in DOMAIN url_map THEN url_map[tipo] ELSE url_map["consultar"]

\* url_map.get(tipo)
url_map_get(tipo) == IF tipo \in DOMAIN url_map THEN url_map[tipo] ELSE None

NoJson == [none |-> TRUE]

\* json_data, with the headers the request is posted with
Envelope(cnpj_contratante, f, headers) ==
    [none |-> FALSE,
     contratante |-> [numero |-> cnpj_contratante, tipo |-> 2],
     autorPedidoDados |-> [numero |-> cnpj_contratante, tipo |-> 2],
     contribuinte |-> [numero |-> f.cnpj, tipo |-> 2],
     pedidoDados |-> [idSistema |-> f.idSistema, idServico |-> f.idServico,
                      versaoSistema |-> f.versaoSistema, dados |-> f.dados],
     headers |-> headers]

\* What the operation endpoint does with the call: the call raises a
\* requests.RequestException, or it answers with a status and a body.
ApiBodies ==
    { [is_json |-> FALSE, has_mensagens |-> FALSE, mensagens |-> <<>>],
      [is_json |-> TRUE, has_mensagens |-> FALSE, mensagens |-> <<>>],
      [is_json |-> TRUE, has_mensagens |-> TRUE, mensagens |-> <<>>],
      [is_json |-> TRUE, has_mensagens |-> TRUE,
       mensagens |-> << [texto |-> "CNPJ invalido"] >>] }

NoReply == [none |-> TRUE]

ApiReplies ==
    { [none |-> FALSE, raised |-> TRUE, msg |-> m, status_code |-> 0,
       body |-> [is_json |-> FALSE, has_mensagens |-> FALSE, mensagens |-> <<>>]] :
        m \in { <<>>, << "Read timed out. (read timeout=30)" >> } } \cup
    { [none |-> FALSE, raised |-> FALSE, msg |-> <<>>, status_code |-> c, body |-> b] :
        c \in { 200, 400, 500 }, b \in ApiBodies }

\* the try/except around requests.post: (response, None) or (None, str(e))
make_api_request_post(r) ==
    IF r.raised
    THEN [response_none |-> TRUE, error |-> Str(r.msg)]
    ELSE [response_none |-> FALSE, error |-> NoneStr]

\* ---- api_handler --------------------------------------------------------
NoResponse == [status |-> 0, body |-> [none |-> TRUE]]

\* request_data = request.json, and `if not request_data`
JsonRaises(b) == b.kind = "invalid"
RequestDataFalsy(b) ==
    \/ b.kind \in { "null", "array0" }
    \/ /\ b.kind = "object"
       /\ ~b.extra
       /\ \A i \in 1..Len(RequiredParams) : b.fields[RequiredParams[i]] = None

\* `all([tipo, cnpj_contribuinte, id_sistema, id_servico, versao_sistema, dados])`
AllParams(f) == \A i \in 1..Len(RequiredParams) : Truthy(f[RequiredParams[i]])

\* the checks of api_handler without the one of id_servico
MissingParams_no_idServico(f) ==
    SelectSeq(RequiredParams, LAMBDA k : k # "idServico" /\ ~Truthy(f[k]))

\* the list `missing` of api_handler
MissingParams(f) == SelectSeq(RequiredParams, LAMBDA k : ~Truthy(f[k]))

\* return jsonify({"error": ...}), status
ErrorResponse(status, error) == [status |-> status, body |-> [error |-> error]]

\* the except branch of api_handler
ExceptionResponse(msg, start, end_time) ==
    [status |-> 500,
     body |-> [success |-> FALSE, error |-> msg,
               execution_time |-> end_time - start]]

\* the successful return of api_handler
SuccessResponse(data, start, end_time) ==
    [status |-> 200,
     body |-> [success |-> TRUE, data |-> data,
               execution_time |-> end_time - start]]


\* ---- the state machine --------------------------------------------------
Init ==
    /\ pc = "idle"
    /\ headers_in = [present |-> FALSE, text |-> <<>>]
    /\ body_in = [kind |-> "null", extra |-> FALSE, fields |-> NoFields]
    /\ now = 0
    /\ start_time = 0
    /\ cfgFile \in { f \in CfgFiles : f.state # "partial" }
    /\ wpc = "idle"
    /\ wdata = 0
    /\ client_id = 0
    /\ client_secret = 0
    /\ auth_reply = NoReply
    /\ auth_result = NoneAuth
    /\ json_data = NoJson
    /\ api_reply = NoReply
    /\ calls = <<>>
    /\ response = NoResponse

\* the handler returns `r` at time `t`
Return(r, t) ==
    /\ response' = r
    /\ now' = t
    /\ pc' = "done"

\* api_handler, lines 140-172: a request arrives; start_time is taken, the
\* access token is validated, the body is parsed and the required
\* parameters are checked.  The clock advances while the handler waits for
\* the network (ApiHandlerGetAuthToken, MakeApiRequestPost), not here.
ApiHandlerEntry(h, b) ==
    /\ pc = "idle"
    /\ headers_in' = h
    /\ body_in' = b
    /\ start_time' = now
    /\ LET v == validate_token(h)
           missing == MissingParams(b.fields)
           t == now
       IN  IF ~v.is_valid
           THEN Return(ErrorResponse(401, << "Authentication failed: ", v.error >>), t)
           ELSE IF JsonRaises(b)
           THEN Return(ExceptionResponse(
                    << "400 Bad Request: Failed to decode JSON object" >>, now, t), t)
           ELSE IF RequestDataFalsy(b)
           THEN Return(ErrorResponse(400, << "No data provided" >>), t)
           ELSE IF b.kind = "array"
           THEN Return(ExceptionResponse(
                    << "'list' object has no attribute 'get'" >>, now, t), t)
           ELSE IF ~AllParams(b.fields)
           THEN Return(ErrorResponse(400,
                    << "Missing required parameters: " >> \o Join(", ", missing)), t)
           ELSE /\ pc' = "load_config"
                /\ now' = t
                /\ UNCHANGED response
    /\ UNCHANGED << cfgFile, wpc, wdata, client_id, client_secret, auth_reply,
                    auth_result, json_data, api_reply, calls >>

\* api_handler, lines 174-181: config = load_config()
ApiHandlerLoadConfig ==
    /\ pc = "load_config"
    /\ LET c == load_config(cfgFile)
           t == now
       IN  IF c.raised
           THEN /\ Return(ExceptionResponse(c.msg, start_time, t), t)
                /\ UNCHANGED << client_id, client_secret >>
           ELSE /\ client_id' = c.config.client_id
                /\ client_secret' = c.config.client_secret
                /\ pc' = "get_auth_token"
                /\ now' = t
                /\ UNCHANGED response
    /\ UNCHANGED << headers_in, body_in, start_time, cfgFile, wpc, wdata,
                    auth_reply, auth_result, json_data, api_reply, calls >>

\* api_handler, lines 183-194: get_auth_token posts to the identity
\* provider, which does `r`; the handler stops on an error.
ApiHandlerGetAuthToken(r, t) ==
    /\ pc = "get_auth_token"
    /\ auth_reply' = [none |-> FALSE, reply |-> r]
    /\ calls' = Append(calls,
            [url |-> AUTH_URL,
             authorization |-> [scheme |-> "Basic", client_id |-> client_id,
                                client_secret |-> client_secret]])
    /\ LET a == get_auth_token(r)
       IN  /\ auth_result' = a.auth_result
           /\ IF TruthyStr(a.error)
              THEN Return(ErrorResponse(500, << "Authentication failed: " >> \o a.error.s), t)
              ELSE IF a.auth_result.none
              THEN Return(ExceptionResponse(
                       << "'NoneType' object is not subscriptable" >>, start_time, t), t)
              ELSE /\ pc' = "make_api_request"
                   /\ now' = t
                   /\ UNCHANGED response
    /\ UNCHANGED << headers_in, body_in, start_time, cfgFile, wpc, wdata,
                    client_id, client_secret, json_data, api_reply >>

\* make_api_request, lines 91-124, and api_handler lines 199-200: the
\* configuration is loaded again, the envelope is built and the URL of the
\* operation is looked up.
MakeApiRequestBuild ==
    /\ pc = "make_api_request"
    /\ LET c == load_config(cfgFile)
           t == now
           tipo == body_in.fields.tipo
           headers == [Authorization |-> << "Bearer", auth_result.access_token >>,
                       jwt_token |-> auth_result.jwt_token]
       IN  IF c.raised
           THEN /\ Return(ExceptionResponse(c.msg, start_time, t), t)
                /\ UNCHANGED json_data
           ELSE /\ json_data' = Envelope(c.config.cnpj_contratante, body_in.fields, headers)
                /\ IF url_map_get(tipo) = None
                   THEN Return(ErrorResponse(400, << "Invalid operation type: ", tipo >>), t)
                   ELSE /\ pc' = "post"
                        /\ now' = t
                        /\ UNCHANGED response
    /\ UNCHANGED << headers_in, body_in, start_time, cfgFile, wpc, wdata,
                    client_id, client_secret, auth_reply, auth_result, api_reply,
                    calls >>

\* make_api_request, lines 126-135, and api_handler lines 199-213: the
\* envelope is posted to the operation endpoint, which does `r`.
MakeApiRequestPost(r, t) ==
    /\ pc = "post"
    /\ api_reply' = r
    /\ calls' = Append(calls,
            [url |-> url_map_get(body_in.fields.tipo),
             authorization |-> json_data.headers.Authorization])
    /\ LET m == make_api_request_post(r)
       IN  IF TruthyStr(m.error)
           THEN Return(ErrorResponse(400, m.error.s), t)
           ELSE IF m.response_none
           THEN Return(ErrorResponse(500, << "Failed to connect to the API" >>), t)
           ELSE IF ~r.body.is_json
           THEN Return(ExceptionResponse(
                    << "Expecting value: line 1 column 1 (char 0)" >>, start_time, t), t)
           ELSE Return(SuccessResponse(r.body, start_time, t), t)
    /\ UNCHANGED << headers_in, body_in, start_time, cfgFile, wpc, wdata,
                    client_id, client_secret, auth_reply, auth_result, json_data >>

\* the response has been sent; the handler is ready for the next request
Finish ==
    /\ pc = "done"
    /\ pc' = "idle"
    /\ client_id' = 0
    /\ client_secret' = 0
    /\ auth_reply' = NoReply
    /\ auth_result' = NoneAuth
    /\ json_data' = NoJson
    /\ api_reply' = NoReply
    /\ calls' = <<>>
    /\ response' = NoResponse
    /\ headers_in' = [present |-> FALSE, text |-> <<>>]
    /\ body_in' = [kind |-> "null", extra |-> FALSE, fields |-> NoFields]
    /\ start_time' = 0
    /\ UNCHANGED << now, cfgFile, wpc, wdata >>

\* save_config, line 49: open('config.json', 'w') creates or truncates the file
SaveConfigOpen(v) ==
    /\ wpc = "idle"
    /\ wpc' = "dump"
    /\ wdata' = v
    /\ cfgFile' = [state |-> "partial", v |-> 0]
    /\ UNCHANGED << pc, headers_in, body_in, now, start_time, client_id,
                    client_secret, auth_reply, auth_result, json_data, api_reply,
                    calls, response >>

\* save_config, line 50: json.dump writes config_data and the file is closed
SaveConfigDump ==
    /\ wpc = "dump"
    /\ wpc' = "idle"
    /\ wdata' = 0
    /\ cfgFile' = [state |-> "ok", v |-> wdata]
    /\ UNCHANGED << pc, headers_in, body_in, now, start_time, client_id,
                    client_secret, auth_reply, auth_result, json_data, api_reply,
                    calls, response >>

Times == now..MaxTime

\* a request arrives with any Authorization header and any body
Receive ==
    pc = "idle" /\ \E h \in AuthHeaders, b \in Bodies : ApiHandlerEntry(h, b)

\* the authenticate call, with whatever the identity provider does, at any
\* later time
Authenticate ==
    pc = "get_auth_token" /\
        \E r \in AuthReplies, t \in Times : ApiHandlerGetAuthToken(r, t)

\* the call to the operation endpoint, with whatever it does, at any later time
Forward ==
    pc = "post" /\ \E r \in ApiReplies, t \in Times : MakeApiRequestPost(r, t)

\* save_config is called with any configuration
SaveConfig == \E v \in 1..MaxCfg : SaveConfigOpen(v)

Next ==
    \/ Receive
    \/ ApiHandlerLoadConfig
    \/ Authenticate
    \/ MakeApiRequestBuild
    \/ Forward
    \/ Finish
    \/ SaveConfig
    \/ SaveConfigDump

Spec == Init /\ [][Next]_vars

TypeOK ==
    /\ pc \in { "idle", "load_config", "get_auth_token", "make_api_request", "post", "done" }
    /\ headers_in \in AuthHeaders
    /\ body_in \in Bodies
    /\ now \in 0..MaxTime
    /\ start_time \in 0..now
    /\ cfgFile \in CfgFiles
    /\ wpc \in { "idle", "dump" }
    /\ Len(calls) <= 2


\* ---- vocabulary of the properties --------------------------------------
\* the Authorization headers of the form "Bearer <token>" (the scheme in any
\* case) that carry the shared secret
AcceptedHeaders ==
    { [present |-> TRUE, text |-> t] : t \in
        { << "Bearer", " ", API_TOKEN >>,
          << "bearer", " ", API_TOKEN >>,
          << "BEARER", " ", " ", API_TOKEN >> } }

ParamNames == { "tipo", "cnpj", "idSistema", "idServico", "versaoSistema", "dados" }

\* a request is being handled or has just been answered
InRequest == pc # "idle"
Done == pc = "done"

\* the required fields that are absent or empty in the body
AbsentOrEmpty(b) == { k \in ParamNames : b.fields[k] \in { None, "" } }

EmptyObject(b) ==
    b.kind = "object" /\ ~b.extra /\ \A k \in ParamNames : b.fields[k] = None

\* the positions of `calls` that are calls to an operation endpoint
OperationCalls ==
    { i \in 1..Len(calls) :
        calls[i].url \in
            { "https://gateway.apiserpro.serpro.gov.br/integra-contador/v1/Consultar",
              "https://gateway.apiserpro.serpro.gov.br/integra-contador/v1/Emitir",
              "https://gateway.apiserpro.serpro.gov.br/integra-contador/v1/Declarar" } }

AuthenticateCalls == { i \in 1..Len(calls) : calls[i].url = AUTH_URL }

\* the identity provider answered 200 with access_token and jwt_token
AuthSucceeded ==
    /\ ~auth_reply.none
    /\ ~auth_reply.reply.raised
    /\ auth_reply.reply.status_code = 200
    /\ auth_reply.reply.is_json
    /\ auth_reply.reply.has_access_token
    /\ auth_reply.reply.has_jwt_token

\* the identity provider answered with a status other than 200
AuthRejected ==
    /\ ~auth_reply.none
    /\ ~auth_reply.reply.raised
    /\ auth_reply.reply.status_code # 200

\* the operation endpoint answered / the call to it raised
ApiAnswered == ~api_reply.none /\ ~api_reply.raised
ApiRaised == ~api_reply.none /\ api_reply.raised

HasSuccess(v) == "success" \in DOMAIN response.body /\ response.body.success = v
HasError == "error" \in DOMAIN response.body

\* the names a "Missing required parameters: a, b, c" message lists, and
\* whether the message is well formed (names at the odd places after the
\* prefix, ", " between them, no name twice)
ListedNames(e) == { e[i] : i \in { j \in 2..Len(e) : j % 2 = 0 } }
WellFormedList(e) ==
    /\ Len(e) >= 2
    /\ e[1] = "Missing required parameters: "
    /\ Len(e) % 2 = 0
    /\ \A j \in 2..Len(e) : (j % 2 = 1) => e[j] = ", "
    /\ \A i, j \in 2..Len(e) : (i % 2 = 0 /\ j % 2 = 0 /\ i # j) => e[i] # e[j]


C1_EndpointOf(tipo) ==
    IF tipo = "emitir"
    THEN "https://gateway.apiserpro.serpro.gov.br/integra-contador/v1/Emitir"
    ELSE "https://gateway.apiserpro.serpro.gov.br/integra-contador/v1/Declarar"

C2_UpstreamError ==
    (Done /\ ApiAnswered /\ api_reply.status_code # 200) =>
        /\ HasSuccess(FALSE)
        /\ response.status = api_reply.status_code
        /\ HasError
        /\ IF /\ api_reply.body.is_json
              /\ api_reply.body.has_mensagens
              /\ api_reply.body.mensagens # <<>>
           THEN response.body.error = << api_reply.body.mensagens[1].texto >>
           ELSE \E i \in 1..Len(response.body.error) :
                    response.body.error[i] = ToString(api_reply.status_code)

\* ---- C3 -----------------------------------------------------------------
\* the response is the 400 that lists exactly the names in M, and no
\* outbound call was made
C3_ListsExactly(M) ==
    /\ Done
    /\ response.status = 400
    /\ HasError
    /\ WellFormedList(response.body.error)
    /\ ListedNames(response.body.error) = M
    /\ calls = <<>>

\* C3, as claimed: a request with the valid access token whose JSON object
\* body lacks a non-empty set M of required fields (the empty object
\* included) gets 400 with a message listing exactly M, and makes no call.
C3_Original ==
    (InRequest /\ headers_in \in AcceptedHeaders /\ body_in.kind = "object"
        /\ AbsentOrEmpty(body_in) # {}) =>
        C3_ListsExactly(AbsentOrEmpty(body_in))

\* C3, amended: the same for every JSON object body that is not the empty
\* object {}; the empty object gets 400 "No data provided", which names no
\* field, and makes no call either.
C3_MissingListed ==
    (InRequest /\ headers_in \in AcceptedHeaders /\ body_in.kind = "object"
        /\ AbsentOrEmpty(body_in) # {}) =>
        IF EmptyObject(body_in)
        THEN /\ Done
             /\ response.status = 400
             /\ HasError
             /\ response.body.error = << "No data provided" >>
             /\ calls = <<>>
        ELSE C3_ListsExactly(AbsentOrEmpty(body_in))

C3_Witness ==
    /\ Done
    /\ headers_in \in AcceptedHeaders
    /\ body_in.kind = "object"
    /\ AbsentOrEmpty(body_in) = { "cnpj", "idServico" }
    /\ response.status = 400
    /\ response.body.error =
            << "Missing required parameters: ", "cnpj", ", ", "idServico" >>

\* ---- C4 -----------------------------------------------------------------
\* C4: a call to an operation endpoint is the second call of its request,
\* after an authenticate call that got 200 with access_token and jwt_token;
\* when the authenticate call fails, times out or gets a malformed body the
\* request is answered at once and has made no operation-endpoint call.
C4_AuthBeforeForward ==
    /\ \A i \in OperationCalls :
            /\ i = 2
            /\ calls[1].url = AUTH_URL
            /\ AuthSucceeded
    /\ (~auth_reply.none /\ ~AuthSucceeded) =>
            /\ Done
            /\ OperationCalls = {}
    /\ pc = "post" => (AuthSucceeded /\ AuthenticateCalls = { 1 })

C4_Witness ==
    /\ Done
    /\ Len(calls) = 2
    /\ calls[1].url = AUTH_URL
    /\ OperationCalls = { 2 }
    /\ AuthSucceeded

\* ---- C5 -----------------------------------------------------------------
\* an otherwise valid request whose kind is none of the three known ones
C5_UnknownKind ==
    /\ InRequest
    /\ headers_in \in AcceptedHeaders
    /\ body_in.kind = "object"
    /\ AbsentOrEmpty(body_in) = {}
    /\ body_in.fields.tipo \notin { "consultar", "emitir", "declarar" }

C5_InvalidOperation ==
    /\ response.status = 400
    /\ HasError
    /\ response.body.error = << "Invalid operation type: ", body_in.fields.tipo >>

C6_AuthRejected ==
    (Done /\ AuthRejected) =>
        /\ response.status = 500
        /\ HasSuccess(FALSE)
        /\ HasError
        /\ response.body.error # <<>>
        /\ response.body.error[1] = "Authentication failed: "

\* ---- C7 -----------------------------------------------------------------
\* C7: when the call to the operation endpoint fails by timeout or transport
\* error, the result has success=false, status 500 and the error "Failed to
\* connect to the API".
C7_Unreachable ==
    (Done /\ ApiRaised) =>
        /\ response.status = 500
        /\ HasSuccess(FALSE)
        /\ HasError
        /\ response.body.error = << "Failed to connect to the API" >>

\* ---- C8 -----------------------------------------------------------------
\* C8: every response carries a success flag and the execution time measured
\* from the entry of the request.
C8_UniformShape ==
    Done =>
        /\ "success" \in DOMAIN response.body
        /\ "execution_time" \in DOMAIN response.body
        /\ response.body.execution_time = now - start_time

\* ---- C9 -----------------------------------------------------------------
\* C9: a request whose Authorization header is absent, is not of the form
\* "Bearer <token>" or carries another token than the shared secret is
\* answered 401 at once, whatever its body, and makes no outbound call.
C9_Unauthorised ==
    (InRequest /\ headers_in \notin AcceptedHeaders) =>
        /\ Done
        /\ response.status = 401
        /\ calls = <<>>
        /\ auth_reply.none
        /\ api_reply.none

C9_Witness ==
    /\ Done
    /\ headers_in = [present |-> TRUE, text |-> << "Bearer", " ", "wrong-token" >>]
    /\ body_in.kind = "object"
    /\ AbsentOrEmpty(body_in) = {}
    /\ body_in.fields.tipo = "consultar"
    /\ response.status = 401
    /\ calls = <<>>

\* ---- C10 ----------------------------------------------------------------
\* C10: the client_id and client_secret of the authenticate call and the
\* cnpj_contratante of the envelope of the same request come from one and
\* the same stored configuration.
C10_OneConfig ==
    (InRequest /\ ~json_data.none) =>
        /\ Len(calls) >= 1
        /\ calls[1].authorization.client_id = json_data.contratante.numero
        /\ calls[1].authorization.client_secret = json_data.contratante.numero
        /\ json_data.autorPedidoDados.numero = json_data.contratante.numero

====
